---- MODULE Spec2Model ----
(***************************************************************************)
(* A model of three components of espresso:                                *)
(*   - CrossEntropyV2Criterion.forward, the sampled logging of the         *)
(*     training criterion (espresso/criterions/cross_entropy_v2.py);       *)
(*   - SpeechChunkTransformerEncoder: construction of the chunk window,    *)
(*     forward and reorder_encoder_out                                     *)
(*     (espresso/models/speech_transformer_encoder_model.py);              *)
(*   - the decoding graph builder, main() of                               *)
(*     examples/mobvoihotwords/local/create_decoding_graph.py;             *)
(*   - SpeechTransformerEncoderModel.state_dict and load_state_dict.       *)
(* Each component has its own specification (SpecCrit and SpecSample,      *)
(* SpecCtor, SpecEnc, SpecReorder, SpecGraph, SpecPersist); the variables  *)
(* of the other components stay at their initial values.                   *)
(***************************************************************************)
EXTENDS Integers, Sequences, FiniteSets

VARIABLES
    \* ---- CrossEntropyV2Criterion and the model it is called with
    print_interval,     \* self.print_interval
    prev_num_updates,   \* self.prev_num_updates
    num_updates,        \* model.num_updates
    training,           \* model.training
    logCount,           \* history: number of REF/PRD log events per num_updates value
    trainCalls,         \* history: number of training-mode forward calls per value
    lastCall,           \* history: num_updates of the latest forward call (-1: none)
    monotone,           \* history: num_updates never decreased between forward calls
    allTraining,        \* history: every forward call was made in training mode
    nCalls,             \* history: number of forward calls
    sentence_avg,       \* self.sentence_avg
    np_state,           \* the state of numpy's global random generator
    lastRet,            \* history: the latest forward call, what it read and returned
    \* ---- SpeechChunkTransformerEncoder
    encState,           \* "unbuilt", "built", or "failed" (__init__ raised)
    ctorArgs,           \* history: the arguments __init__ was called with
    out_chunk_begin,    \* self.out_chunk_begin
    out_chunk_end,      \* self.out_chunk_end: <<>> is None, <<e>> is e
    training_stage,     \* self.training_stage
    fc_out,             \* self.fc_out is not None
    encTraining,        \* self.training
    lastFwd,            \* history: the latest forward call (mode, wrapped output, result)
    eo,                 \* the EncoderOutput object the latest forward returned
    \* ---- reorder_encoder_out
    eoBefore,           \* history: eo as it was when the latest reorder was called
    lastOrder,          \* history: new_order of the latest reorder call
    reordered,          \* what the latest reorder call returned
    reorderOutcome,     \* "none", "returned" or "IndexError"
    reorderPhase,       \* "fresh": eo never reordered; "once"; "twice"
    \* ---- create_decoding_graph.main
    pc,                 \* the statement main is at, "done" or "failed"
    args,               \* the namespace main is called with
    env,                \* what the run finds installed and on disk
    gAux,               \* G: "unloaded", "acceptor" or "transducer" (has aux_labels)
    intersectAttempted, \* history: k2.intersect was called
    hclgFile,           \* <out_dir>/HCLG.pt: "none", "partial" or "complete"
    logLines,           \* number of "saved the decoding graph" lines logged
    gError,             \* the exception that ended main, or "none"
    \* ---- SpeechTransformerEncoderModel.state_dict / load_state_dict
    state_prior,        \* self.state_prior: <<>> is None, <<v>> is the tensor v
    params,             \* the learned parameters of the model, by key
    saved,              \* the bundle the latest state_dict() returned (empty: none yet)
    priorAtSave,        \* history: self.state_prior when state_dict() was called
    bundle,             \* the caller's dict of the latest load_state_dict, after the call
    lastLoad,           \* history: the latest load_state_dict call
    nLoads              \* history: number of load_state_dict calls

critVars == <<print_interval, prev_num_updates, num_updates, training,
              logCount, trainCalls, lastCall, monotone, allTraining, nCalls,
              sentence_avg, np_state, lastRet>>

encVars == <<encState, ctorArgs, out_chunk_begin, out_chunk_end, training_stage,
             fc_out, encTraining, lastFwd, eo>>

reorderVars == <<eoBefore, lastOrder, reordered, reorderOutcome, reorderPhase>>

graphVars == <<pc, args, env, gAux, intersectAttempted, hclgFile, logLines, gError>>

persistVars == <<state_prior, params, saved, priorAtSave, bundle, lastLoad, nLoads>>

vars == <<critVars, encVars, reorderVars, graphVars, persistVars>>

-----------------------------------------------------------------------------
(* Bounds *)

MaxCalls == 4
MaxUpdate == 2
MaxPadding == 1
MaxStride == 2
MaxConvLayers == 2
MaxChunkWidth == 2
MaxLeftContext == 2
MaxFrames == 3
NumLayers == 2
FramesReorder == 2
MaxBatch == 3
MaxOrderLen == 4
MaxPrior == 2
MaxParam == 2
MaxLoads == 3
MaxSentences == 3
MaxTargetLen == 2
RngModulus == 8

\* the lengths of new_order exercised: shorter than, equal to and longer than the batch
OrderLens == {1, 2, 4}

(* Program constants *)

\* CrossEntropyV2CriterionConfig.print_training_sample_interval default
DefaultPrintInterval == 500

-----------------------------------------------------------------------------
(* CrossEntropyV2Criterion *)

\* the print intervals the criterion is constructed with
PrintIntervals == {1, 2, DefaultPrintInterval}

\* the values model.num_updates takes
UpdateValues ==
    (0..MaxUpdate) \cup
    {DefaultPrintInterval - 1, DefaultPrintInterval, 2 * DefaultPrintInterval}

\* Python's a // b for b > 0 (floor division; TLC's \div floors as well)
FloorDiv(a, b) == a \div b

CrossingAlways(n, p) == FloorDiv(n, p) >= FloorDiv(n - 1, p)

\* model.num_updates // self.print_interval > (model.num_updates - 1) // self.print_interval
Crossing(n, p) == FloorDiv(n, p) > FloorDiv(n - 1, p)

ShouldLogNoPrev(n, t, p, prev) == t /\ Crossing(n, p)

ShouldLogAnyMode(n, t, p, prev) == Crossing(n, p) /\ n # prev

\* the condition of forward's if statement (the model has a num_updates attribute)
ShouldLog(n, t, p, prev) == t /\ Crossing(n, p) /\ n # prev

\* a batch: its number of sentences (rows of sample["target"], entries of
\* sample["id"]) and sample["ntokens"]
Samples ==
    {[nsentences |-> b, ntokens |-> b * l] : b \in 1..MaxSentences, l \in 1..MaxTargetLen}

\* the batch of the calls whose sample does not matter
OneSample == [nsentences |-> 1, ntokens |-> 1]

\* sample["target"].size(0)
TargetRows(sample) == sample.nsentences

\* len(sample["id"])
BatchLen(sample) == sample.nsentences

SampleSizeTokensOnly(savg, sample) == sample.ntokens

\* sample_size = sample["target"].size(0) if self.sentence_avg else sample["ntokens"]
SampleSize(savg, sample) ==
    IF savg THEN TargetRows(sample) ELSE sample.ntokens

\* logging_output without the loss
LoggingOutput(sample, sample_size) ==
    [ntokens |-> sample.ntokens,
     nsentences |-> TargetRows(sample),
     sample_size |-> sample_size]

\* the states of the global random generator (a small linear congruential one)
RngStates == 0..(RngModulus - 1)

\* np.random.seed(seed): the state depends on the seed only
NumpySeed(seed) == (seed + 1) % RngModulus

\* np.random.randint(lo, hi): advances the generator and maps its state to [lo, hi)
NumpyRandInt(state, lo, hi) ==
    LET next == (5 * state + 3) % RngModulus
    IN  [value |-> lo + (next % (hi - lo)), state |-> next]

SampleDrawUnseeded(n, bsz, state) ==
    LET drawn == NumpyRandInt(state, 0, bsz)
    IN  [value |-> drawn.value, restored |-> state]

\* with data_utils.numpy_seed(model.num_updates): i = np.random.randint(0, len(sample["id"]))
\* the generator state is saved, seeded from n, drawn from, and put back
SampleDraw(n, bsz, state) ==
    LET kept == state
        drawn == NumpyRandInt(NumpySeed(n), 0, bsz)
    IN  [value |-> drawn.value, restored |-> kept]

NoRet ==
    [called |-> FALSE, logged |-> FALSE, n |-> 0, training |-> FALSE,
     prevBefore |-> -1, sample |-> OneSample, index |-> <<>>, sample_size |-> 0,
     logging_output |-> LoggingOutput(OneSample, 0)]

\* CrossEntropyV2Criterion.__init__ and SpeechTransformerEncoderModel.__init__
InitCrit ==
    /\ print_interval \in PrintIntervals
    /\ prev_num_updates = -1
    /\ num_updates = 0
    /\ training = TRUE
    /\ logCount = [v \in UpdateValues |-> 0]
    /\ trainCalls = [v \in UpdateValues |-> 0]
    /\ lastCall = -1
    /\ monotone = TRUE
    /\ allTraining = TRUE
    /\ nCalls = 0
    /\ sentence_avg = FALSE
    /\ np_state = 0
    /\ lastRet = NoRet

\* __init__ of a criterion with either averaging policy, in a process whose
\* global random generator is in any state
InitSample ==
    /\ print_interval \in PrintIntervals
    /\ prev_num_updates = -1
    /\ num_updates = 0
    /\ training = TRUE
    /\ logCount = [v \in UpdateValues |-> 0]
    /\ trainCalls = [v \in UpdateValues |-> 0]
    /\ lastCall = -1
    /\ monotone = TRUE
    /\ allTraining = TRUE
    /\ nCalls = 0
    /\ sentence_avg \in BOOLEAN
    /\ np_state \in RngStates
    /\ lastRet = NoRet

\* a criterion that is never called
IdleCrit ==
    /\ print_interval = DefaultPrintInterval
    /\ prev_num_updates = -1
    /\ num_updates = 0
    /\ training = TRUE
    /\ logCount = [v \in UpdateValues |-> 0]
    /\ trainCalls = [v \in UpdateValues |-> 0]
    /\ lastCall = -1
    /\ monotone = TRUE
    /\ allTraining = TRUE
    /\ nCalls = 0
    /\ sentence_avg = FALSE
    /\ np_state = 0
    /\ lastRet = NoRet

\* SpeechTransformerEncoderModel.set_num_updates
SetNumUpdates(n) ==
    /\ num_updates' = n
    /\ UNCHANGED <<print_interval, prev_num_updates, training, logCount,
                   trainCalls, lastCall, monotone, allTraining, nCalls,
                   sentence_avg, np_state, lastRet>>

\* model.train() / model.eval(): the mode forward reads as model.training
SetTraining(t) ==
    /\ training' = t
    /\ UNCHANGED <<print_interval, prev_num_updates, num_updates, logCount,
                   trainCalls, lastCall, monotone, allTraining, nCalls,
                   sentence_avg, np_state, lastRet>>

\* CrossEntropyV2Criterion.forward(model, sample)
CritForward(sample) ==
    /\ nCalls < MaxCalls
    /\ LET logs == ShouldLog(num_updates, training, print_interval, prev_num_updates)
           sample_size == SampleSize(sentence_avg, sample)
           draw == SampleDraw(num_updates, BatchLen(sample), np_state)
       IN  /\ IF logs
              THEN /\ prev_num_updates' = num_updates
                   /\ logCount' = [logCount EXCEPT ![num_updates] = @ + 1]
                   /\ np_state' = draw.restored
              ELSE UNCHANGED <<prev_num_updates, logCount, np_state>>
           /\ lastRet' = [called |-> TRUE,
                          logged |-> logs,
                          n |-> num_updates,
                          training |-> training,
                          prevBefore |-> prev_num_updates,
                          sample |-> sample,
                          index |-> IF logs THEN <<draw.value>> ELSE <<>>,
                          sample_size |-> sample_size,
                          logging_output |-> LoggingOutput(sample, sample_size)]
    /\ trainCalls' = IF training
                     THEN [trainCalls EXCEPT ![num_updates] = @ + 1]
                     ELSE trainCalls
    /\ lastCall' = num_updates
    /\ monotone' = (monotone /\ num_updates >= lastCall)
    /\ allTraining' = (allTraining /\ training)
    /\ nCalls' = nCalls + 1
    /\ UNCHANGED <<print_interval, num_updates, training, sentence_avg>>

-----------------------------------------------------------------------------
(* Tensors: a 2-d tensor is its shape and its rows; the channel axis of an     *)
(* activation is folded into the cell, which names the kind of vector, the     *)
(* layer, the frame and the batch item it belongs to.                          *)

\* a time x batch activation of the given kind (and layer): T x B x C
TimeMajor(kind, layer, T, B) ==
    [shape |-> <<T, B>>,
     v |-> [t \in 1..T |-> [b \in 1..B |-> <<kind, layer, t, b>>]]]

\* a batch x time tensor of the given kind: B x T (x C)
BatchMajor(kind, B, T) ==
    [shape |-> <<B, T>>,
     v |-> [b \in 1..B |-> [t \in 1..T |-> <<kind, 0, t, b>>]]]

\* the B x T padding mask of a batch with the given valid lengths
PaddingMask(B, T, lens) ==
    [shape |-> <<B, T>>, v |-> [b \in 1..B |-> [t \in 1..T |-> t > lens[b]]]]

\* Tensor.transpose(0, 1)
Transpose(X) ==
    [shape |-> <<X.shape[2], X.shape[1]>>,
     v |-> [j \in 1..X.shape[2] |-> [i \in 1..X.shape[1] |-> X.v[i][j]]]]

\* index_select raises IndexError unless every index is within the axis
SelectOk(X, dim, order) ==
    \A k \in 1..Len(order) : order[k] >= 0 /\ order[k] < X.shape[dim + 1]

\* Tensor.index_select(dim, order) on a 2-d tensor, indices counted from 0
IndexSelect(X, dim, order) ==
    IF dim = 0
    THEN [shape |-> <<Len(order), X.shape[2]>>,
          v |-> [k \in 1..Len(order) |-> X.v[order[k] + 1]]]
    ELSE [shape |-> <<X.shape[1], Len(order)>>,
          v |-> [i \in 1..X.shape[1] |->
                    [k \in 1..Len(order) |-> X.v[i][order[k] + 1]]]]

\* index_select on the 1-d tensor of lengths
IndexSelect1(s, order) == [k \in 1..Len(order) |-> s[order[k] + 1]]

Max(a, b) == IF a >= b THEN a ELSE b
Min(a, b) == IF a <= b THEN a ELSE b

\* Python's slice bound: negative bounds count from the end, then clamp to [0, n]
SliceBound(i, n) == IF i < 0 THEN Max(i + n, 0) ELSE Min(i, n)

\* x[b:e] along the first (time) axis
PySlice(X, b, e) ==
    LET n  == X.shape[1]
        lo == SliceBound(b, n)
        hi == SliceBound(e, n)
        w  == Max(hi - lo, 0)
    IN [shape |-> <<w, X.shape[2]>>, v |-> [i \in 1..w |-> X.v[lo + i]]]

\* self.fc_out(x): the projection replaces every frame's channel vector
Project(X) ==
    [shape |-> X.shape,
     v |-> [i \in 1..X.shape[1] |->
               [j \in 1..X.shape[2] |->
                   <<"fc", X.v[i][j][2], X.v[i][j][3], X.v[i][j][4]>>]]]

-----------------------------------------------------------------------------
(* SpeechChunkTransformerEncoder.__init__ *)

\* the convolutional front ends: stacks of layers with a time-axis padding and stride
ConvLayers == [padding : 0..MaxPadding, stride : 1..MaxStride]

RECURSIVE SeqsUpTo(_, _)
SeqsUpTo(S, n) ==
    IF n = 0 THEN {<<>>}
    ELSE LET shorter == SeqsUpTo(S, n - 1)
         IN shorter \cup {Append(q, x) : q \in {r \in shorter : Len(r) = n - 1}, x \in S}

ConvStacks == SeqsUpTo(ConvLayers, MaxConvLayers) \ {<<>>}

\* conv_layers_before: <<>> is None, <<stack>> a front end
ConvChoices == {<<>>} \cup {<<c>> : c \in ConvStacks}

\* the front ends forward is exercised with: none, a stride-1 layer, a padded stride-2 layer
EncConvChoices ==
    {<<>>, <<(<<[padding |-> 0, stride |-> 1]>>)>>, <<(<<[padding |-> 1, stride |-> 2]>>)>>}

\* chunk_width: <<>> is None
ChunkWidthChoices == {<<>>} \cup {<<w>> : w \in (-1)..MaxChunkWidth}

LeftContextChoices == (-1)..MaxLeftContext

RECURSIVE SumPaddings(_)
\* sum(conv.padding[0] for conv in conv_layers_before.convolutions)
SumPaddings(stack) ==
    IF stack = <<>> THEN 0 ELSE Head(stack).padding + SumPaddings(Tail(stack))

ReceptiveFieldRadius(conv) == IF conv # <<>> THEN SumPaddings(conv[1]) ELSE 0

RECURSIVE ConvOutputLengths(_, _)
\* ConvBNReLU.output_lengths: each layer maps n frames to ceil(n / stride)
ConvOutputLengths(stack, n) ==
    IF stack = <<>> THEN n
    ELSE ConvOutputLengths(Tail(stack),
                           (n + Head(stack).stride - 1) \div Head(stack).stride)

\* SpeechTransformerEncoder.output_lengths
OutputLengths(conv, n) == IF conv = <<>> THEN n ELSE ConvOutputLengths(conv[1], n)

CtorChecksAllowZeroWidth(conv, cw, c) ==
    /\ (cw = <<>> \/ cw[1] >= 0)
    /\ \/ (conv = <<>> /\ c >= 0)
       \/ (conv # <<>> /\ c >= ReceptiveFieldRadius(conv))

\* the two assert statements of __init__
CtorChecks(conv, cw, c) ==
    /\ (cw = <<>> \/ cw[1] > 0)
    /\ \/ (conv = <<>> /\ c >= 0)
       \/ (conv # <<>> /\ c >= ReceptiveFieldRadius(conv))

OutChunkBeginNoMinusOne(conv, c) == OutputLengths(conv, c + 1)

\* self.out_chunk_begin
OutChunkBegin(conv, c) == OutputLengths(conv, c + 1) - 1

\* self.out_chunk_end
OutChunkEnd(conv, cw, c) ==
    IF cw # <<>> THEN <<OutputLengths(conv, c + cw[1])>> ELSE <<>>

\* the defaults of __init__'s signature
DefaultArgs ==
    [conv |-> <<>>, chunk_width |-> <<>>, chunk_left_context |-> 0,
     training_stage |-> TRUE, num_targets |-> FALSE]

\* the empty EncoderOutput (every list empty)
NoOutput ==
    [encoder_out |-> <<>>, encoder_padding_mask |-> <<>>, encoder_embedding |-> <<>>,
     encoder_states |-> <<>>, src_tokens |-> <<>>, src_lengths |-> <<>>]

NoCall == [called |-> FALSE, training |-> FALSE, out |-> NoOutput, ret |-> NoOutput]

\* before any encoder is constructed
InitEnc ==
    /\ encState = "unbuilt"
    /\ ctorArgs = DefaultArgs
    /\ out_chunk_begin = 0
    /\ out_chunk_end = <<>>
    /\ training_stage = TRUE
    /\ fc_out = FALSE
    /\ encTraining = TRUE
    /\ lastFwd = NoCall
    /\ eo = NoOutput

\* SpeechChunkTransformerEncoder.__init__
Construct(conv, cw, c, ts, nt) ==
    /\ encState = "unbuilt"
    /\ ctorArgs' = [conv |-> conv, chunk_width |-> cw, chunk_left_context |-> c,
                    training_stage |-> ts, num_targets |-> nt]
    /\ IF CtorChecks(conv, cw, c)
       THEN /\ encState' = "built"
            /\ out_chunk_begin' = OutChunkBegin(conv, c)
            /\ out_chunk_end' = OutChunkEnd(conv, cw, c)
            /\ training_stage' = ts
            /\ fc_out' = nt
       ELSE /\ encState' = "failed"
            /\ UNCHANGED <<out_chunk_begin, out_chunk_end, training_stage, fc_out>>
    /\ UNCHANGED <<encTraining, lastFwd, eo>>

\* an encoder constructed with the default arguments
InitEncDefault ==
    /\ encState = "built"
    /\ ctorArgs = DefaultArgs
    /\ out_chunk_begin = OutChunkBegin(<<>>, 0)
    /\ out_chunk_end = OutChunkEnd(<<>>, <<>>, 0)
    /\ training_stage = TRUE
    /\ fc_out = FALSE
    /\ encTraining = TRUE
    /\ lastFwd = NoCall
    /\ eo = NoOutput

\* encoder.train() / encoder.eval()
SetEncTraining(t) ==
    /\ encState = "built"
    /\ encTraining' = t
    /\ UNCHANGED <<encState, ctorArgs, out_chunk_begin, out_chunk_end,
                   training_stage, fc_out, lastFwd, eo>>

-----------------------------------------------------------------------------
(* SpeechChunkTransformerEncoder.forward *)

\* the batch sizes forward is exercised with
EncBatchSizes == {1, 2}

\* the valid lengths of a batch of B items of T frames: no padding, or every
\* item but the first padded by one frame
LenProfiles(T, B) ==
    {[b \in 1..B |-> T], [b \in 1..B |-> IF b = 1 THEN T ELSE Max(1, T - 1)]}

\* SpeechTransformerEncoder.forward, the wrapped encoder: a T x B activation,
\* a B x T padding mask, the lengths, and the optional fields
WrappedForward(T, B, lens, hid, emb, tok) ==
    [encoder_out          |-> <<TimeMajor("x", 0, T, B)>>,
     encoder_padding_mask |-> <<PaddingMask(B, T, lens)>>,
     encoder_embedding    |-> IF emb THEN <<BatchMajor("emb", B, T)>> ELSE <<>>,
     encoder_states       |-> IF hid
                              THEN [l \in 1..NumLayers |-> TimeMajor("h", l, T, B)]
                              ELSE <<>>,
     src_tokens           |-> IF tok THEN <<BatchMajor("tok", B, T)>> ELSE <<>>,
     src_lengths          |-> <<lens>>]

SliceConditionTrainingOnly(end, tr, ts) == end # <<>> /\ tr

\* self.out_chunk_end is not None and (self.training or not self.training_stage)
SliceCondition(end, tr, ts) == end # <<>> /\ (tr \/ ~ts)

\* what forward returns for the wrapped encoder's output `out`
ForwardResult(out, begin, end, tr, ts, fc) ==
    LET x0   == out.encoder_out[1]
        l0   == out.src_lengths[1]
        cut  == SliceCondition(end, tr, ts)
        x1   == IF cut THEN PySlice(x0, begin, end[1]) ELSE x0
        l1   == IF cut THEN [b \in 1..Len(l0) |-> x1.shape[1]] ELSE l0
        x2   == IF fc THEN Project(x1) ELSE x1
    IN [encoder_out          |-> <<x2>>,
        encoder_padding_mask |-> <<Transpose(out.encoder_padding_mask[1])>>,
        encoder_embedding    |-> out.encoder_embedding,
        encoder_states       |-> out.encoder_states,
        src_tokens           |-> out.src_tokens,
        src_lengths          |-> <<l1>>]

\* SpeechChunkTransformerEncoder.forward
EncForward(T, B, lens, hid, emb, tok) ==
    /\ encState = "built"
    /\ LET out == WrappedForward(T, B, lens, hid, emb, tok)
           ret == ForwardResult(out, out_chunk_begin, out_chunk_end,
                                encTraining, training_stage, fc_out)
       IN /\ eo' = ret
          /\ lastFwd' = [called |-> TRUE, training |-> encTraining, out |-> out,
                          ret |-> ret]
    /\ UNCHANGED <<encState, ctorArgs, out_chunk_begin, out_chunk_end,
                   training_stage, fc_out, encTraining>>

-----------------------------------------------------------------------------
(* SpeechChunkTransformerEncoder.reorder_encoder_out *)

InitReorder ==
    /\ eoBefore = NoOutput
    /\ lastOrder = <<>>
    /\ reordered = NoOutput
    /\ reorderOutcome = "none"
    /\ reorderPhase = "fresh"

\* the batch size of an EncoderOutput that forward returned
BatchSize(e) == e.encoder_out[1].shape[2]

\* new_order: indices into the batch, repeats allowed
Orders(B) == {o \in SeqsUpTo(0..(B - 1), MaxOrderLen) : Len(o) \in OrderLens}

\* a field held as an empty or one-element list, selected along axis dim
ReorderField(f, dim, order) ==
    IF Len(f) = 0 THEN <<>> ELSE <<IndexSelect(f[1], dim, order)>>

ReorderSrcLengthsForgotten(f, order) == f

\* new_src_lengths
ReorderSrcLengths(f, order) ==
    IF Len(f) = 0 THEN <<>> ELSE <<IndexSelect1(f[1], order)>>

\* whether every index_select before the encoder_states loop succeeds
FieldsOk(e, order) ==
    /\ Len(e.encoder_out) = 0 \/ SelectOk(e.encoder_out[1], 1, order)
    /\ Len(e.encoder_padding_mask) = 0 \/ SelectOk(e.encoder_padding_mask[1], 1, order)
    /\ Len(e.encoder_embedding) = 0 \/ SelectOk(e.encoder_embedding[1], 0, order)
    /\ Len(e.src_tokens) = 0 \/ SelectOk(e.src_tokens[1], 0, order)
    /\ Len(e.src_lengths) = 0
          \/ \A k \in 1..Len(order) : order[k] >= 0 /\ order[k] < Len(e.src_lengths[1])

\* the first encoder state whose index_select raises (Len + 1: none)
FirstBadState(states, order) ==
    LET bad == {k \in 1..Len(states) : ~SelectOk(states[k], 1, order)}
    IN IF bad = {} THEN Len(states) + 1
       ELSE CHOOSE k \in bad : \A j \in bad : k <= j

\* the loop `encoder_states[idx] = state.index_select(1, new_order)`: it assigns
\* into the list of the input, up to the first state that raises
StatesAfterLoop(states, order) ==
    LET stop == FirstBadState(states, order)
    IN [k \in 1..Len(states) |->
           IF k < stop THEN IndexSelect(states[k], 1, order) ELSE states[k]]

\* the dictionary reorder_encoder_out returns
ReorderResult(e, order) ==
    [encoder_out          |-> ReorderField(e.encoder_out, 1, order),
     encoder_padding_mask |-> ReorderField(e.encoder_padding_mask, 1, order),
     encoder_embedding    |-> ReorderField(e.encoder_embedding, 0, order),
     encoder_states       |-> StatesAfterLoop(e.encoder_states, order),
     src_tokens           |-> ReorderField(e.src_tokens, 0, order),
     src_lengths          |-> ReorderSrcLengths(e.src_lengths, order)]

\* reorder_encoder_out(eo, order)
Reorder(order) ==
    /\ lastFwd.called
    /\ reorderPhase \in {"fresh", "once"}
    /\ eoBefore' = eo
    /\ lastOrder' = order
    /\ reorderPhase' = IF reorderPhase = "fresh" THEN "once" ELSE "twice"
    /\ IF ~FieldsOk(eo, order)
       THEN /\ reorderOutcome' = "IndexError"
            /\ reordered' = NoOutput
            /\ eo' = eo
       ELSE /\ eo' = [eo EXCEPT !.encoder_states = StatesAfterLoop(@, order)]
            /\ IF FirstBadState(eo.encoder_states, order) <= Len(eo.encoder_states)
               THEN /\ reorderOutcome' = "IndexError"
                    /\ reordered' = NoOutput
               ELSE /\ reorderOutcome' = "returned"
                    /\ reordered' = ReorderResult(eo, order)
    /\ UNCHANGED <<encState, ctorArgs, out_chunk_begin, out_chunk_end,
                   training_stage, fc_out, encTraining, lastFwd>>

-----------------------------------------------------------------------------
(* The decoding graph builder: main(args) of create_decoding_graph.py *)

\* the attributes of the argparse namespace: get_parser defines HCL_inv_path,
\* G_path and out_dir only; a caller of main may pass a namespace that also has
\* lm_fsa_path
ArgsChoices ==
    {a \in [via_cli : BOOLEAN, has_lm_fsa_path : BOOLEAN, lm_is_pt : BOOLEAN] :
        /\ a.via_cli => ~a.has_lm_fsa_path
        /\ a.lm_is_pt => a.has_lm_fsa_path}

\* what the run finds: the k2 package, the files the paths name, and whether the
\* automaton saved at G_path carries aux_labels
EnvChoices ==
    [k2_installed : BOOLEAN, hcl_loadable : BOOLEAN, g_loadable : BOOLEAN,
     g_has_aux : BOOLEAN, lm_text_ok : BOOLEAN]

InitGraph ==
    /\ pc = "import_k2"
    /\ args \in ArgsChoices
    /\ env \in EnvChoices
    /\ gAux = "unloaded"
    /\ intersectAttempted = FALSE
    /\ hclgFile = "none"
    /\ logLines = 0
    /\ gError = "none"

\* a builder that is never run
IdleGraph ==
    /\ pc = "import_k2"
    /\ args = [via_cli |-> TRUE, has_lm_fsa_path |-> FALSE, lm_is_pt |-> FALSE]
    /\ env = [k2_installed |-> TRUE, hcl_loadable |-> TRUE, g_loadable |-> TRUE,
              g_has_aux |-> FALSE, lm_text_ok |-> TRUE]
    /\ gAux = "unloaded"
    /\ intersectAttempted = FALSE
    /\ hclgFile = "none"
    /\ logLines = 0
    /\ gError = "none"

\* an exception leaves main: the process ends with a traceback
Raise(kind) ==
    /\ pc' = "failed"
    /\ gError' = kind

\* try: import k2 / except ImportError: raise ImportError(...)
ImportK2 ==
    /\ pc = "import_k2"
    /\ IF env.k2_installed
       THEN pc' = "load_hcl_inv" /\ UNCHANGED gError
       ELSE Raise("ImportError")
    /\ UNCHANGED <<args, env, gAux, intersectAttempted, hclgFile, logLines>>

\* HCL_inv = k2.arc_sort(k2.Fsa.from_dict(torch.load(args.HCL_inv_path)))
LoadHCLInv ==
    /\ pc = "load_hcl_inv"
    /\ IF env.hcl_loadable
       THEN pc' = "select_g_format" /\ UNCHANGED gError
       ELSE Raise("LoadError")
    /\ UNCHANGED <<args, env, gAux, intersectAttempted, hclgFile, logLines>>

\* if args.lm_fsa_path[-3:] == ".pt": the attribute is read before any branch
SelectGFormat ==
    /\ pc = "select_g_format"
    /\ IF ~args.has_lm_fsa_path
       THEN Raise("AttributeError")
       ELSE /\ pc' = IF args.lm_is_pt THEN "load_g_torch" ELSE "load_g_text"
            /\ UNCHANGED gError
    /\ UNCHANGED <<args, env, gAux, intersectAttempted, hclgFile, logLines>>

\* G = k2.Fsa.from_dict(torch.load(args.G_path))
LoadGTorch ==
    /\ pc = "load_g_torch"
    /\ IF env.g_loadable
       THEN /\ gAux' = IF env.g_has_aux THEN "transducer" ELSE "acceptor"
            /\ pc' = "assert_acceptor"
            /\ UNCHANGED gError
       ELSE Raise("LoadError") /\ UNCHANGED gAux
    /\ UNCHANGED <<args, env, intersectAttempted, hclgFile, logLines>>

\* with open(args.lm_fsa_path) as f: G = k2.Fsa.from_openfst(f.read(), acceptor=True)
LoadGText ==
    /\ pc = "load_g_text"
    /\ IF env.lm_text_ok
       THEN /\ gAux' = "acceptor"
            /\ pc' = "assert_acceptor"
            /\ UNCHANGED gError
       ELSE Raise("LoadError") /\ UNCHANGED gAux
    /\ UNCHANGED <<args, env, intersectAttempted, hclgFile, logLines>>

AcceptorCheckSkipped(g) == TRUE

\* not hasattr(G, "aux_labels")
AcceptorCheck(g) == g # "transducer"

\* assert not hasattr(G, "aux_labels")
AssertAcceptor ==
    /\ pc = "assert_acceptor"
    /\ IF AcceptorCheck(gAux)
       THEN pc' = "arc_sort_g" /\ UNCHANGED gError
       ELSE Raise("AssertionError")
    /\ UNCHANGED <<args, env, gAux, intersectAttempted, hclgFile, logLines>>

\* G = k2.arc_sort(G)
ArcSortG ==
    /\ pc = "arc_sort_g"
    /\ pc' = "compose"
    /\ UNCHANGED <<args, env, gAux, intersectAttempted, hclgFile, logLines, gError>>

\* HCLG = k2.invert(k2.connect(k2.intersect(G, HCL_inv)))
Compose ==
    /\ pc = "compose"
    /\ intersectAttempted' = TRUE
    /\ pc' = "determinize"
    /\ UNCHANGED <<args, env, gAux, hclgFile, logLines, gError>>

\* HCLG = k2.determinize(HCLG)
Determinize ==
    /\ pc = "determinize"
    /\ pc' = "connect"
    /\ UNCHANGED <<args, env, gAux, intersectAttempted, hclgFile, logLines, gError>>

\* HCLG = k2.connect(HCLG)
Connect ==
    /\ pc = "connect"
    /\ pc' = "save"
    /\ UNCHANGED <<args, env, gAux, intersectAttempted, hclgFile, logLines, gError>>

\* torch.save(HCLG.as_dict(), os.path.join(args.out_dir, "HCLG.pt")): the file is
\* written, or out_dir cannot be opened for writing, or the write breaks off
Save(outcome) ==
    /\ pc = "save"
    /\ IF outcome = "saved"
       THEN /\ hclgFile' = "complete"
            /\ pc' = "log_saved"
            /\ UNCHANGED gError
       ELSE /\ hclgFile' = IF outcome = "broken_off" THEN "partial" ELSE hclgFile
            /\ Raise("IOError")
    /\ UNCHANGED <<args, env, gAux, intersectAttempted, logLines>>

SaveOutcomes == {"saved", "cannot_open", "broken_off"}

\* logger.info(f"saved the decoding graph as {save_path}")
LogSaved ==
    /\ pc = "log_saved"
    /\ logLines' = logLines + 1
    /\ pc' = "done"
    /\ UNCHANGED <<args, env, gAux, intersectAttempted, hclgFile, gError>>

-----------------------------------------------------------------------------
(* SpeechTransformerEncoderModel.state_dict and load_state_dict.  A dict is a   *)
(* function from its keys; a value is <<>> (None) or <<v>> (the tensor v).      *)

\* the key state_dict adds and load_state_dict removes
PriorKey == "state_prior"

\* the keys of the learned parameters of this model
ParamKeys == {"encoder.w"}

\* keys a bundle may hold: the prior, the parameters, and one the model does not know
BundleKeys == {PriorKey, "encoder.w", "encoder.old"}

\* the values self.state_prior takes: None or a tensor
PriorValues == {<<>>} \cup {<<v>> : v \in 1..MaxPrior}

ParamValues == {<<v>> : v \in 1..MaxParam}

\* dict with no key
EmptyDict == [k \in {} |-> <<>>]

\* d[key] = value on a dict
DictSet(d, key, value) ==
    [k \in (DOMAIN d) \cup {key} |-> IF k = key THEN value ELSE d[k]]

\* del d[key]
DictDel(d, key) == [k \in (DOMAIN d) \ {key} |-> d[k]]

\* d.get(key, None)
DictGet(d, key) == IF key \in DOMAIN d THEN d[key] ELSE <<>>

\* the bundles load_state_dict is called with: current and legacy states, with
\* and without the parameters, with and without an unknown key
Bundles ==
    UNION {[K -> PriorValues \cup ParamValues] : K \in SUBSET BundleKeys}

WellFormedBundle(d) ==
    \A k \in DOMAIN d :
        IF k = PriorKey THEN d[k] \in PriorValues ELSE d[k] \in ParamValues

LoadableBundles == {d \in Bundles : WellFormedBundle(d)}

\* SpeechTransformerEncoderModel.state_dict: the learned parameters by key
\* (torch.nn.Module.state_dict) and the prior
StateDictOf(ps, prior) == DictSet(ps, PriorKey, prior)

StripInPlace(d) ==
    LET stripped == IF PriorKey \in DOMAIN d THEN DictDel(d, PriorKey) ELSE d
    IN  [caller |-> stripped, subset |-> stripped]

\* state_dict_subset = state_dict.copy(), then del state_dict_subset["state_prior"]:
\* the caller's dict and the copy handed to the parameter-loading path
CopyAndStrip(d) ==
    LET copy == [k \in DOMAIN d |-> d[k]]
    IN  [caller |-> d,
         subset |-> IF PriorKey \in DOMAIN d THEN DictDel(copy, PriorKey) ELSE copy]

\* self.state_prior after load_state_dict(d)
LoadedStatePrior(d) ==
    IF PriorKey \in DOMAIN d THEN d[PriorKey] ELSE DictGet(d, PriorKey)

\* the standard parameter-loading path: the parameters the bundle has are copied;
\* in strict mode a missing or an unexpected key then raises RuntimeError
SuperLoadOutcome(d, strict) ==
    IF strict /\ DOMAIN d # ParamKeys THEN "RuntimeError" ELSE "returned"

SuperLoadParams(ps, d) ==
    [k \in DOMAIN ps |-> IF k \in DOMAIN d THEN d[k] ELSE ps[k]]

NoLoad ==
    [called |-> FALSE, arg |-> EmptyDict, strict |-> TRUE, subset |-> EmptyDict,
     fromSave |-> FALSE, outcome |-> "none"]

\* SpeechTransformerEncoderModel.__init__: state_prior is the task's initial prior
InitPersist ==
    /\ state_prior \in PriorValues
    /\ params \in [ParamKeys -> ParamValues]
    /\ saved = EmptyDict
    /\ priorAtSave = <<>>
    /\ bundle = EmptyDict
    /\ lastLoad = NoLoad
    /\ nLoads = 0

\* a model whose state is neither saved nor loaded
IdlePersist ==
    /\ state_prior = <<>>
    /\ params = [k \in ParamKeys |-> <<1>>]
    /\ saved = EmptyDict
    /\ priorAtSave = <<>>
    /\ bundle = EmptyDict
    /\ lastLoad = NoLoad
    /\ nLoads = 0

\* SpeechTransformerEncoderModel.state_dict
StateDict ==
    /\ saved' = StateDictOf(params, state_prior)
    /\ priorAtSave' = state_prior
    /\ UNCHANGED <<state_prior, params, bundle, lastLoad, nLoads>>

\* SpeechTransformerEncoderModel.load_state_dict(d, strict); fromSave: d is the
\* bundle the latest state_dict() returned
LoadStateDict(d, strict, fromSave) ==
    /\ nLoads < MaxLoads
    /\ LET dicts == CopyAndStrip(d)
           subset == dicts.subset
       IN  /\ state_prior' = LoadedStatePrior(d)
           /\ params' = SuperLoadParams(params, subset)
           /\ bundle' = dicts.caller
           /\ lastLoad' = [called |-> TRUE, arg |-> d, strict |-> strict,
                           subset |-> subset, fromSave |-> fromSave,
                           outcome |-> SuperLoadOutcome(subset, strict)]
    /\ nLoads' = nLoads + 1
    /\ UNCHANGED <<saved, priorAtSave>>

-----------------------------------------------------------------------------
(* Specifications *)

\* the criterion and its model; no encoder call is made
NextCrit ==
    \/ \E n \in UpdateValues :
          SetNumUpdates(n) /\ UNCHANGED <<encVars, reorderVars, graphVars, persistVars>>
    \/ \E t \in BOOLEAN :
          SetTraining(t) /\ UNCHANGED <<encVars, reorderVars, graphVars, persistVars>>
    \/ CritForward(OneSample) /\ UNCHANGED <<encVars, reorderVars, graphVars, persistVars>>

\* the initial states of SpecCrit
CritStart == InitCrit /\ InitEnc /\ InitReorder /\ IdleGraph /\ IdlePersist

SpecCrit == CritStart /\ [][NextCrit]_vars

\* the values of num_updates at which batches are given to the criterion
SampleUpdates == {0, 1, 2, DefaultPrintInterval}

\* two forward calls of a criterion with either averaging policy on batches of
\* several sizes
NextSample ==
    \/ \E n \in SampleUpdates :
          SetNumUpdates(n) /\ UNCHANGED <<encVars, reorderVars, graphVars, persistVars>>
    \/ \E t \in BOOLEAN :
          SetTraining(t) /\ UNCHANGED <<encVars, reorderVars, graphVars, persistVars>>
    \/ /\ nCalls < 2
       /\ \E sample \in Samples :
             CritForward(sample)
             /\ UNCHANGED <<encVars, reorderVars, graphVars, persistVars>>

\* the initial states of SpecSample
SampleStart == InitSample /\ InitEnc /\ InitReorder /\ IdleGraph /\ IdlePersist

SpecSample == SampleStart /\ [][NextSample]_vars

\* construction of an encoder over the front ends and chunk parameters
NextCtor ==
    /\ encState = "unbuilt"
    /\ \E conv \in ConvChoices, cw \in ChunkWidthChoices, c \in LeftContextChoices,
          ts \in BOOLEAN, nt \in BOOLEAN :
          Construct(conv, cw, c, ts, nt) /\ UNCHANGED <<critVars, reorderVars, graphVars, persistVars>>

\* the initial states of SpecCtor
CtorStart == IdleCrit /\ InitEnc /\ InitReorder /\ IdleGraph /\ IdlePersist

SpecCtor == CtorStart /\ [][NextCtor]_vars

\* construction of an encoder and forward calls on it
NextEnc ==
    \/ /\ encState = "unbuilt"
       /\ \E conv \in EncConvChoices, cw \in ChunkWidthChoices, c \in LeftContextChoices,
             ts \in BOOLEAN, nt \in BOOLEAN :
             Construct(conv, cw, c, ts, nt)
             /\ UNCHANGED <<critVars, reorderVars, graphVars, persistVars>>
    \/ \E t \in BOOLEAN :
          SetEncTraining(t) /\ UNCHANGED <<critVars, reorderVars, graphVars, persistVars>>
    \/ /\ encState = "built"
       /\ \E T \in 1..MaxFrames, B \in EncBatchSizes, hid \in BOOLEAN :
             \E lens \in LenProfiles(T, B) :
                EncForward(T, B, lens, hid, FALSE, FALSE)
                /\ UNCHANGED <<critVars, reorderVars, graphVars, persistVars>>

\* the initial states of SpecEnc
EncStart == IdleCrit /\ InitEnc /\ InitReorder /\ IdleGraph /\ IdlePersist

SpecEnc == EncStart /\ [][NextEnc]_vars

\* a forward call of an encoder built with the default arguments, then beam
\* reordering of the EncoderOutput it returned: once, and once more on the same object
NextReorder ==
    \/ /\ ~lastFwd.called
       /\ \E B \in 1..MaxBatch, hid \in BOOLEAN, extras \in BOOLEAN :
             EncForward(FramesReorder, B, [b \in 1..B |-> FramesReorder],
                        hid, extras, extras)
             /\ UNCHANGED <<critVars, reorderVars, graphVars, persistVars>>
    \/ /\ lastFwd.called
       /\ reorderPhase \in {"fresh", "once"}
       /\ \E order \in Orders(BatchSize(eo)) :
             Reorder(order) /\ UNCHANGED <<critVars, graphVars, persistVars>>

\* the initial states of SpecReorder
ReorderStart == IdleCrit /\ InitEncDefault /\ InitReorder /\ IdleGraph /\ IdlePersist

SpecReorder == ReorderStart /\ [][NextReorder]_vars

\* one run of the decoding graph builder
NextGraph ==
    \/ ImportK2 /\ UNCHANGED <<critVars, encVars, reorderVars, persistVars>>
    \/ LoadHCLInv /\ UNCHANGED <<critVars, encVars, reorderVars, persistVars>>
    \/ SelectGFormat /\ UNCHANGED <<critVars, encVars, reorderVars, persistVars>>
    \/ LoadGTorch /\ UNCHANGED <<critVars, encVars, reorderVars, persistVars>>
    \/ LoadGText /\ UNCHANGED <<critVars, encVars, reorderVars, persistVars>>
    \/ AssertAcceptor /\ UNCHANGED <<critVars, encVars, reorderVars, persistVars>>
    \/ ArcSortG /\ UNCHANGED <<critVars, encVars, reorderVars, persistVars>>
    \/ Compose /\ UNCHANGED <<critVars, encVars, reorderVars, persistVars>>
    \/ Determinize /\ UNCHANGED <<critVars, encVars, reorderVars, persistVars>>
    \/ Connect /\ UNCHANGED <<critVars, encVars, reorderVars, persistVars>>
    \/ \E outcome \in SaveOutcomes :
          Save(outcome) /\ UNCHANGED <<critVars, encVars, reorderVars, persistVars>>
    \/ LogSaved /\ UNCHANGED <<critVars, encVars, reorderVars, persistVars>>

\* the initial states of SpecGraph
GraphStart == IdleCrit /\ InitEnc /\ InitReorder /\ InitGraph /\ IdlePersist

SpecGraph == GraphStart /\ [][NextGraph]_vars

-----------------------------------------------------------------------------
\* saving the state of a model and loading bundles into it
NextPersist ==
    \/ StateDict /\ UNCHANGED <<critVars, encVars, reorderVars, graphVars>>
    \/ \E d \in LoadableBundles, strict \in BOOLEAN :
          LoadStateDict(d, strict, FALSE)
          /\ UNCHANGED <<critVars, encVars, reorderVars, graphVars>>
    \/ /\ saved # EmptyDict
       /\ \E strict \in BOOLEAN :
             LoadStateDict(saved, strict, TRUE)
             /\ UNCHANGED <<critVars, encVars, reorderVars, graphVars>>

\* the initial states of SpecPersist
PersistStart == IdleCrit /\ InitEnc /\ InitReorder /\ IdleGraph /\ InitPersist

SpecPersist == PersistStart /\ [][NextPersist]_vars

-----------------------------------------------------------------------------
(* Claims about the criterion, checked under SpecCrit *)

RECURSIVE SumOver(_, _)
SumOver(f, S) ==
    IF S = {} THEN 0
    ELSE LET v == CHOOSE x \in S : TRUE IN f[v] + SumOver(f, S \ {v})

\* the number of log events emitted so far
TotalLogs == SumOver(logCount, UpdateValues)

\* C1 as stated: over any sequence of forward calls, in any order of num_updates
\* values and any mix of modes, no num_updates value has more than one log event.
C1_AtMostOncePerValue == \A v \in UpdateValues : logCount[v] <= 1

\* C1 amended: over any sequence of forward calls in which num_updates never
\* decreases from one call to the next (any mix of training and eval mode), no
\* num_updates value has more than one log event, however often forward is
\* called with that value.
C1_AtMostOncePerValueMonotone ==
    monotone => \A v \in UpdateValues : logCount[v] <= 1

\* C1 witness: forward ran at least twice in training mode at a bucket-crossing
\* value of a non-decreasing sequence and logged there once.
C1_Witness ==
    /\ monotone
    /\ \E v \in UpdateValues :
          /\ trainCalls[v] >= 2
          /\ (v \div print_interval) > ((v - 1) \div print_interval)
          /\ logCount[v] = 1

\* C2: for training-mode forward calls with non-decreasing num_updates, the number
\* of log events equals the number of distinct values v called with
\* v // print_interval > (v - 1) // print_interval; with print_interval = 500 the
\* calls 499, 500, 500, 1000 log exactly twice, at 500 and at 1000.
C2_OneEventPerCrossing ==
    (monotone /\ allTraining) =>
        /\ TotalLogs = Cardinality({v \in UpdateValues :
                /\ trainCalls[v] > 0
                /\ (v \div print_interval) > ((v - 1) \div print_interval)})
        /\ ( /\ print_interval = 500
             /\ nCalls = 4
             /\ trainCalls[499] = 1 /\ trainCalls[500] = 2 /\ trainCalls[1000] = 1 )
           => ( /\ TotalLogs = 2
                /\ logCount[500] = 1
                /\ logCount[1000] = 1 )

\* C2 witness: the calls 499, 500, 500, 1000 with print_interval = 500.
C2_Witness ==
    /\ monotone /\ allTraining
    /\ print_interval = 500
    /\ nCalls = 4
    /\ trainCalls[499] = 1 /\ trainCalls[500] = 2 /\ trainCalls[1000] = 1
    /\ TotalLogs = 2

-----------------------------------------------------------------------------
(* Claims about reorder_encoder_out, checked under SpecReorder *)

\* R is E (time x batch) with batch slot i taken from slot o[i] of E
SlotsFromAxis1(R, E, o) ==
    /\ R.shape = <<E.shape[1], Len(o)>>
    /\ \A t \in 1..E.shape[1] : \A i \in 1..Len(o) : R.v[t][i] = E.v[t][o[i] + 1]

\* R is E (batch x time) with batch slot i taken from slot o[i] of E
SlotsFromAxis0(R, E, o) ==
    /\ R.shape = <<Len(o), E.shape[2]>>
    /\ \A i \in 1..Len(o) : R.v[i] = E.v[o[i] + 1]

\* r is e with every populated field permuted by o, absent fields absent
PermutedBy(r, e, o) ==
    /\ Len(r.encoder_out) = Len(e.encoder_out)
    /\ Len(e.encoder_out) = 1 =>
          SlotsFromAxis1(r.encoder_out[1], e.encoder_out[1], o)
    /\ Len(r.encoder_padding_mask) = Len(e.encoder_padding_mask)
    /\ Len(e.encoder_padding_mask) = 1 =>
          SlotsFromAxis1(r.encoder_padding_mask[1], e.encoder_padding_mask[1], o)
    /\ Len(r.encoder_embedding) = Len(e.encoder_embedding)
    /\ Len(e.encoder_embedding) = 1 =>
          SlotsFromAxis0(r.encoder_embedding[1], e.encoder_embedding[1], o)
    /\ Len(r.src_tokens) = Len(e.src_tokens)
    /\ Len(e.src_tokens) = 1 =>
          SlotsFromAxis0(r.src_tokens[1], e.src_tokens[1], o)
    /\ Len(r.src_lengths) = Len(e.src_lengths)
    /\ Len(e.src_lengths) = 1 =>
          /\ Len(r.src_lengths[1]) = Len(o)
          /\ \A i \in 1..Len(o) : r.src_lengths[1][i] = e.src_lengths[1][o[i] + 1]
    /\ Len(r.encoder_states) = Len(e.encoder_states)
    /\ \A k \in 1..Len(e.encoder_states) :
          SlotsFromAxis1(r.encoder_states[k], e.encoder_states[k], o)

\* C3: whenever reorder_encoder_out(e, new_order) returns, every populated field of
\* the output (encoder_out, encoder_padding_mask, encoder_embedding, every entry of
\* encoder_states, src_tokens, src_lengths) holds at batch slot i what e held at
\* slot new_order[i] when the call was made, the batch size of the output is
\* len(new_order), and absent fields stay absent.
C3_FieldCorrespondence ==
    reorderOutcome = "returned" => PermutedBy(reordered, eoBefore, lastOrder)

\* C3 witness: new_order = [2, 0, 0, 1] on a fresh batch of 3 with every field
\* populated gives a batch of 4 whose slots 1 and 2 (counted from 0) are identical.
C3_Witness ==
    /\ reorderOutcome = "returned"
    /\ reorderPhase = "once"
    /\ lastOrder = <<2, 0, 0, 1>>
    /\ BatchSize(eoBefore) = 3
    /\ Len(eoBefore.encoder_states) > 0
    /\ Len(eoBefore.encoder_embedding) = 1
    /\ Len(eoBefore.src_tokens) = 1
    /\ BatchSize(reordered) = 4
    /\ \A t \in 1..reordered.encoder_out[1].shape[1] :
          /\ reordered.encoder_out[1].v[t][2] = reordered.encoder_out[1].v[t][3]
          /\ reordered.encoder_out[1].v[t][2] = eoBefore.encoder_out[1].v[t][1]
          /\ reordered.encoder_states[1].v[t][2] = reordered.encoder_states[1].v[t][3]
    /\ reordered.src_tokens[1].v[2] = reordered.src_tokens[1].v[3]

\* C4: reorder_encoder_out does not mutate its input: after a call that returned,
\* every field of e (encoder_states included) holds what it held before the call,
\* which is what forward returned, and the output of a second call on the same e
\* is what forward returned permuted by the second order alone.
C4_InputNotMutated ==
    reorderOutcome = "returned" =>
        /\ eo = eoBefore
        /\ eo = lastFwd.ret
        /\ PermutedBy(reordered, lastFwd.ret, lastOrder)

-----------------------------------------------------------------------------
(* Claims about forward, checked under SpecEnc *)

\* C5: the EncoderOutput forward returns satisfies the data-model invariant in
\* every mode: the time-axis sizes of the activation, of the padding mask and of
\* every intermediate state agree, so do their batch-axis sizes (and the number of
\* lengths), and no valid length exceeds the time extent.
C5_EncoderOutputInvariant ==
    lastFwd.called =>
        LET x == eo.encoder_out[1]
            m == eo.encoder_padding_mask[1]
            l == eo.src_lengths[1]
        IN /\ m.shape[1] = x.shape[1]
           /\ m.shape[2] = x.shape[2]
           /\ \A k \in 1..Len(eo.encoder_states) : eo.encoder_states[k].shape = x.shape
           /\ Len(l) = x.shape[2]
           /\ \A b \in 1..Len(l) : l[b] <= x.shape[1]

\* the frames of x (time x batch) at 0-based times begin .. end - 1, in order
IsWindowOf(y, x, begin, end) ==
    LET inside == {t \in 0..(x.shape[1] - 1) : begin <= t /\ t < end}
    IN /\ y.shape = <<Cardinality(inside), x.shape[2]>>
       /\ \A i \in 1..y.shape[1] : begin + i - 1 \in inside /\ y.v[i] = x.v[begin + i]

\* C6 as stated: forward slices exactly when out_chunk_end is set and the encoder
\* is in training mode or was built with training_stage = false; then the returned
\* activation is frames [begin, end) of the wrapped encoder's output and every
\* valid length is the number of frames of the slice; otherwise activation and
\* lengths of the wrapped encoder are returned unchanged.
C6_SliceExactlyWhen ==
    lastFwd.called =>
        LET x == lastFwd.out.encoder_out[1]
            y == eo.encoder_out[1]
            l == eo.src_lengths[1]
        IN IF out_chunk_end # <<>> /\ (lastFwd.training \/ ~training_stage)
           THEN /\ IsWindowOf(y, x, out_chunk_begin, out_chunk_end[1])
                /\ Len(l) = x.shape[2]
                /\ \A b \in 1..Len(l) : l[b] = y.shape[1]
           ELSE /\ y = x
                /\ l = lastFwd.out.src_lengths[1]

\* the cells of x with their channel vectors projected when fc is configured
Projected(x, fc) ==
    IF fc
    THEN [shape |-> x.shape,
          v |-> [t \in 1..x.shape[1] |->
                    [b \in 1..x.shape[2] |->
                        <<"fc", x.v[t][b][2], x.v[t][b][3], x.v[t][b][4]>>]]]
    ELSE x

\* C6 amended: as C6, where the returned activation is the frames (the slice, or
\* all of them) of the wrapped encoder's output after the output projection fc_out
\* has been applied to each frame when the encoder was built with num_targets, and
\* the frames themselves when it was not.
C6_SliceExactlyWhenProjected ==
    lastFwd.called =>
        LET x == Projected(lastFwd.out.encoder_out[1], fc_out)
            y == eo.encoder_out[1]
            l == eo.src_lengths[1]
        IN IF out_chunk_end # <<>> /\ (lastFwd.training \/ ~training_stage)
           THEN /\ IsWindowOf(y, x, out_chunk_begin, out_chunk_end[1])
                /\ Len(l) = x.shape[2]
                /\ \A b \in 1..Len(l) : l[b] = y.shape[1]
           ELSE /\ y = x
                /\ l = lastFwd.out.src_lengths[1]

\* C6 witness: an encoder built with training_stage = false cuts, in eval mode, a
\* window that is shorter than the wrapped encoder's output and starts after its
\* first frame.
C6_Witness ==
    /\ lastFwd.called
    /\ ~lastFwd.training /\ ~training_stage
    /\ out_chunk_end # <<>>
    /\ out_chunk_begin > 0
    /\ eo.encoder_out[1].shape[1] >= 1
    /\ eo.encoder_out[1].shape[1] < lastFwd.out.encoder_out[1].shape[1]
    /\ eo.src_lengths[1] # lastFwd.out.src_lengths[1]

\* C8: construction fails exactly when chunk_width is set and <= 0, or a front end
\* is present and chunk_left_context < its receptive-field radius, or none is
\* present and chunk_left_context < 0; no forward call runs on a failed encoder.
C8_ConstructionFailsExactlyWhen ==
    encState # "unbuilt" =>
        LET conv == ctorArgs.conv
            cw   == ctorArgs.chunk_width
            c    == ctorArgs.chunk_left_context
        IN /\ (encState = "failed") <=>
                 \/ (cw # <<>> /\ cw[1] <= 0)
                 \/ (conv # <<>> /\ c < SumPaddings(conv[1]))
                 \/ (conv = <<>> /\ c < 0)
           /\ encState = "failed" => ~lastFwd.called /\ eo = NoOutput
           /\ lastFwd.called => encState = "built"

\* C8 witness: a positive chunk_width and a non-negative chunk_left_context that is
\* smaller than the radius of the front end: construction failed.
C8_Witness ==
    /\ encState = "failed"
    /\ ctorArgs.conv # <<>>
    /\ ctorArgs.chunk_width # <<>> /\ ctorArgs.chunk_width[1] > 0
    /\ ctorArgs.chunk_left_context >= 0
    /\ ctorArgs.chunk_left_context < SumPaddings(ctorArgs.conv[1])

-----------------------------------------------------------------------------
(* Claims about the chunk window, checked under SpecCtor *)

\* C7: for a front end of receptive-field radius r, chunk_left_context c >= r and
\* chunk_width w >= 1, construction succeeds with
\* begin = output_lengths(c + 1) - 1 and end = output_lengths(c + w), and
\* 0 <= begin < end.
C7_WindowWellFormed ==
    LET conv == ctorArgs.conv
        cw   == ctorArgs.chunk_width
        c    == ctorArgs.chunk_left_context
    IN ( /\ encState # "unbuilt"
         /\ conv # <<>>
         /\ c >= ReceptiveFieldRadius(conv)
         /\ cw # <<>> /\ cw[1] >= 1 )
       => /\ encState = "built"
          /\ out_chunk_begin = OutputLengths(conv, c + 1) - 1
          /\ out_chunk_end = <<OutputLengths(conv, c + cw[1])>>
          /\ 0 <= out_chunk_begin
          /\ out_chunk_begin < out_chunk_end[1]

\* C7 witness: two padded stride-2 layers (radius 2), c = 2 and w = 1: the window
\* is the single output frame [0, 1).
C7_Witness ==
    /\ encState = "built"
    /\ ctorArgs.conv = <<(<<[padding |-> 1, stride |-> 2], [padding |-> 1, stride |-> 2]>>)>>
    /\ ctorArgs.chunk_left_context = 2
    /\ ctorArgs.chunk_width = <<1>>
    /\ out_chunk_begin = 0
    /\ out_chunk_end = <<1>>

-----------------------------------------------------------------------------
(* Claims about the decoding graph builder, checked under SpecGraph *)

\* C9: run through the command-line interface with loadable --HCL-inv-path and
\* --G-path files (G without aux_labels) and k2 installed, the builder raises no
\* error, and once it has ended it has written HCLG.pt completely and has emitted
\* exactly one log line.
C9_CliRunCompletes ==
    ( /\ args.via_cli
      /\ env.k2_installed /\ env.hcl_loadable /\ env.g_loadable /\ ~env.g_has_aux )
    => /\ gError \notin {"ImportError", "LoadError", "AttributeError", "AssertionError"}
       /\ pc = "done" => hclgFile = "complete" /\ logLines = 1

\* C10: a run that fails for a missing library, a load failure or a G that carries
\* aux_labels (or for the missing attribute) has written nothing to HCLG.pt; no
\* failed run has emitted the log line; and a G that carries aux_labels never
\* reaches the intersection.
C10_FailsBeforeWriting ==
    /\ ( /\ pc = "failed"
         /\ gError \in {"ImportError", "LoadError", "AssertionError", "AttributeError"} )
       => hclgFile = "none" /\ ~intersectAttempted
    /\ pc = "failed" => logLines = 0
    /\ gAux = "transducer" => ~intersectAttempted /\ hclgFile = "none"

\* C10 witness: G was loaded with aux_labels and the assertion stopped the run.
C10_Witness ==
    /\ pc = "failed"
    /\ gError = "AssertionError"
    /\ gAux = "transducer"
    /\ ~intersectAttempted
    /\ hclgFile = "none"

-----------------------------------------------------------------------------
(* Claims about state_dict / load_state_dict, checked under SpecPersist *)

\* C11: after every load_state_dict call, state_prior is the bundle's state_prior
\* entry when the bundle has one and None when it has none (a legacy state); the
\* bundle handed to the standard parameter-loading path has no state_prior key
\* (and is the caller's bundle otherwise); the caller's bundle is as it was before
\* the call; and loading the bundle state_dict() returned restores the
\* state_prior the model had when state_dict() was called.
C11_LoadStateDict ==
    lastLoad.called =>
        /\ IF PriorKey \in DOMAIN lastLoad.arg
           THEN state_prior = lastLoad.arg[PriorKey]
           ELSE state_prior = <<>>
        /\ PriorKey \notin DOMAIN lastLoad.subset
        /\ DOMAIN lastLoad.subset = (DOMAIN lastLoad.arg) \ {PriorKey}
        /\ \A k \in DOMAIN lastLoad.subset : lastLoad.subset[k] = lastLoad.arg[k]
        /\ bundle = lastLoad.arg
        /\ lastLoad.fromSave => state_prior = priorAtSave

\* C11 witness: a model saved with a tensor prior then loaded a legacy bundle
\* (state_prior became None), and a load of the saved bundle restored the prior.
C11_Witness ==
    /\ lastLoad.called /\ lastLoad.fromSave
    /\ nLoads >= 2
    /\ priorAtSave # <<>>
    /\ state_prior = priorAtSave
    /\ PriorKey \in DOMAIN bundle

\* C11 witness of the legacy case: a bundle without the entry set the prior to None.
C11_WitnessLegacy ==
    /\ lastLoad.called
    /\ PriorKey \notin DOMAIN lastLoad.arg
    /\ priorAtSave # <<>>
    /\ state_prior = <<>>

-----------------------------------------------------------------------------
(* Claims about the sampled example and the returned sample size, checked     *)
(* under SpecSample                                                           *)

\* C12: the example index picked at a log event lies in [0, batch_size) and is
\* the index picked at that num_updates on a batch of that size whatever state
\* the global random generator was left in by what ran before: any two runs that
\* log at the same num_updates on batches of the same size pick the same index.
\* The draw also leaves the global generator as it found it.
C12_SampledIndexReproducible ==
    (lastRet.called /\ lastRet.logged) =>
        /\ Len(lastRet.index) = 1
        /\ lastRet.index[1] >= 0
        /\ lastRet.index[1] < BatchLen(lastRet.sample)
        /\ \A other \in RngStates :
              SampleDraw(lastRet.n, BatchLen(lastRet.sample), other).value
                  = lastRet.index[1]

\* C12 witness: the second call of a run logged on a batch of several sentences,
\* after an earlier call had logged at another num_updates.
C12_Witness ==
    /\ lastRet.called /\ lastRet.logged
    /\ nCalls = 2
    /\ TotalLogs = 2
    /\ BatchLen(lastRet.sample) >= 2
    /\ np_state # NumpySeed(lastRet.n)

\* C13: every forward call returns sample_size equal to the number of target rows
\* of the batch when sentence_avg is set and to the batch's ntokens otherwise, and
\* logging_output["sample_size"] is that same value, on calls that log a sample
\* and on calls that do not.
C13_SampleSize ==
    lastRet.called =>
        /\ lastRet.sample_size = IF sentence_avg
                                 THEN lastRet.sample.nsentences
                                 ELSE lastRet.sample.ntokens
        /\ lastRet.logging_output.sample_size = lastRet.sample_size

\* C13 witness: a call that logged returned the sentence count of a batch whose
\* token count is different.
C13_Witness ==
    /\ lastRet.called /\ lastRet.logged
    /\ sentence_avg
    /\ lastRet.sample.nsentences # lastRet.sample.ntokens
    /\ lastRet.sample_size = lastRet.sample.nsentences

\* C13 witness without a log event and without sentence averaging.
C13_WitnessTokens ==
    /\ lastRet.called /\ ~lastRet.logged
    /\ ~sentence_avg
    /\ lastRet.sample.nsentences # lastRet.sample.ntokens
    /\ lastRet.sample_size = lastRet.sample.ntokens

\* C14: with print_interval >= 1, a forward call logs only if the model is in
\* training mode and num_updates is a multiple of print_interval (0 included);
\* prev_num_updates differs from its value before the call only on such a call
\* and is then that call's num_updates; a call in eval mode leaves it as it was.
C14_LogOnlyOnTrainingMultiple ==
    (lastRet.called /\ print_interval >= 1) =>
        LET onMultiple == lastRet.training /\ lastRet.n % print_interval = 0
        IN  /\ lastRet.logged => onMultiple
            /\ prev_num_updates # lastRet.prevBefore =>
                  (onMultiple /\ prev_num_updates = lastRet.n)
            /\ ~lastRet.training => prev_num_updates = lastRet.prevBefore

\* C14 witness: the first call, in training mode at num_updates = 0, logged and set
\* prev_num_updates from -1 to 0.
C14_Witness ==
    /\ lastRet.called /\ lastRet.logged
    /\ lastRet.n = 0 /\ lastRet.training
    /\ lastRet.prevBefore = -1
    /\ prev_num_updates = 0

\* C14 witness of the eval case: a call in eval mode at a multiple of
\* print_interval, after a logged one, left prev_num_updates alone.
C14_WitnessEval ==
    /\ lastRet.called /\ ~lastRet.training /\ ~lastRet.logged
    /\ lastRet.n % print_interval = 0
    /\ lastRet.n # lastRet.prevBefore
    /\ lastRet.prevBefore >= 0
    /\ prev_num_updates = lastRet.prevBefore

====
